---- MODULE Spec2Model ----
(***************************************************************************)
(* Model of libyamlconf/yaml.py: the hierarchical YAML loader.             *)
(*                                                                         *)
(* Python objects are modelled with a heap: dicts and lists are mutable    *)
(* objects that live at an address, scalars (str, int, Path, None) are     *)
(* immutable values.  A dict is an association list (parallel sequences    *)
(* keys/vals) so that Python's insertion order is kept.                    *)
(*                                                                         *)
(* A str is modelled by the sequence of its "/"-separated segments, a Path *)
(* by the sequence of its components; an absolute path starts with "/".    *)
(***************************************************************************)
EXTENDS Integers, Sequences, FiniteSets, TLC

\* ------------------------------------------------------------------ bounds
\* Scaled-down interpreter recursion limit (frames of _recursive_load).
RecursionLimit == 5
\* Scaled-down PATH_MAX of the platform, counted in path components.
PathMax == 8
\* Number of load calls made on the one YamlLoader instance.
MaxCalls == 3

\* ------------------------------------------------- document trees (YAML text)
TStr(segs) == [k |-> "str", s |-> segs, keys |-> <<>>, vals |-> <<>>]
TInt(n) == [k |-> "int", s |-> <<n>>, keys |-> <<>>, vals |-> <<>>]
TNone == [k |-> "none", s |-> <<>>, keys |-> <<>>, vals |-> <<>>]
TPath(p) == [k |-> "path", s |-> p, keys |-> <<>>, vals |-> <<>>]
TList(vals) == [k |-> "list", s |-> <<>>, keys |-> <<>>, vals |-> vals]
TDict(keys, vals) == [k |-> "dict", s |-> <<>>, keys |-> keys, vals |-> vals]

Containers == {"dict", "list"}

\* ------------------------------------------------------------ heap values
Val(k, s) == [k |-> k, s |-> s, a |-> 0]
Ref(a) == [k |-> "ref", s |-> <<>>, a |-> a]
NoValue == [k |-> "novalue", s |-> <<>>, a |-> 0]

EmptyDict == [k |-> "dict", keys |-> <<>>, vals |-> <<>>]

\* isinstance(v, dict) / isinstance(v, list) for a value on heap h
IsDict(h, v) == v.k = "ref" /\ h[v.a].k = "dict"
IsList(h, v) == v.k = "ref" /\ h[v.a].k = "list"

\* ------------------------------------------------------- dict operations
DictHas(o, key) == \E i \in 1..Len(o.keys) : o.keys[i] = key
DictIdx(o, key) == CHOOSE i \in 1..Len(o.keys) : o.keys[i] = key
DictGet(o, key) == o.vals[DictIdx(o, key)]
DictSet(o, key, v) ==
  IF DictHas(o, key)
  THEN [o EXCEPT !.vals[DictIdx(o, key)] = v]
  ELSE [o EXCEPT !.keys = Append(@, key), !.vals = Append(@, v)]
DictDel(o, key) ==
  LET i == DictIdx(o, key) IN
  [o EXCEPT !.keys = SubSeq(@, 1, i - 1) \o SubSeq(@, i + 1, Len(@)),
            !.vals = SubSeq(@, 1, i - 1) \o SubSeq(@, i + 1, Len(@))]

\* ---------------------------------------------- parsing: tree -> fresh objects
RECURSIVE Alloc(_, _), AllocAll(_, _)
AllocAll(h, ts) ==
  IF ts = <<>> THEN [h |-> h, vs |-> <<>>]
  ELSE LET r1 == Alloc(h, Head(ts))
           r2 == AllocAll(r1.h, Tail(ts))
       IN [h |-> r2.h, vs |-> <<r1.v>> \o r2.vs]
Alloc(h, t) ==
  IF t.k \in Containers
  THEN LET r == AllocAll(h, t.vals)
       IN [h |-> Append(r.h, [k |-> t.k, keys |-> t.keys, vals |-> r.vs]),
           v |-> Ref(Len(r.h) + 1)]
  ELSE [h |-> h, v |-> Val(t.k, t.s)]

\* content of a heap value as a tree (object identity forgotten)
RECURSIVE Tree(_, _), TreeAll(_, _)
TreeAll(h, vs) ==
  IF vs = <<>> THEN <<>> ELSE <<Tree(h, Head(vs))>> \o TreeAll(h, Tail(vs))
Tree(h, v) ==
  IF v.k = "ref"
  THEN [k |-> h[v.a].k, s |-> <<>>, keys |-> h[v.a].keys, vals |-> TreeAll(h, h[v.a].vals)]
  ELSE [k |-> v.k, s |-> v.s, keys |-> <<>>, vals |-> <<>>]

\* ------------------------------------------------------------------ paths
RECURSIVE DropDots(_)
DropDots(segs) ==
  IF segs = <<>> THEN <<>>
  ELSE IF Head(segs) \in {".", ""} THEN DropDots(Tail(segs))
  ELSE <<Head(segs)>> \o DropDots(Tail(segs))
\* pathlib.Path(str): "." segments are dropped, ".." segments are kept
PathOf(segs) ==
  IF segs # <<>> /\ Head(segs) = "/" THEN <<"/">> \o DropDots(Tail(segs))
  ELSE DropDots(segs)
IsAbs(p) == p # <<>> /\ p[1] = "/"
\* Path.parent
Parent(p) == IF Len(p) <= 1 THEN (IF IsAbs(p) THEN p ELSE <<>>) ELSE SubSeq(p, 1, Len(p) - 1)
\* Path.__truediv__
Join(p, q) == IF IsAbs(q) THEN q ELSE p \o q

\* --------------------------------------------------------- the file system
\* a file system is a function from canonical absolute paths to document trees
Dirs(fsys) == UNION {{SubSeq(f, 1, n) : n \in 1..(Len(f) - 1)} : f \in DOMAIN fsys}
\* the kernel's path walk: ".." steps to the parent directory, every prefix
\* walked through must be a directory; <<>> when the walk fails
RECURSIVE Walk(_, _, _)
Walk(fsys, cur, rest) ==
  IF rest = <<>> THEN cur
  ELSE IF cur \notin Dirs(fsys) THEN <<>>
  ELSE Walk(fsys, IF Head(rest) = ".." THEN Parent(cur) ELSE Append(cur, Head(rest)), Tail(rest))
Canon(fsys, p) == IF IsAbs(p) THEN Walk(fsys, <<"/">>, Tail(p)) ELSE Walk(fsys, <<"/">>, p)
\* os.path.isfile: False for a missing file and for a name that is too long
IsFile(fsys, p) == Len(p) <= PathMax /\ Canon(fsys, p) \in DOMAIN fsys

\* ------------------------------------------------------ loader configuration
\* YamlLoader(parent_key="base", relative_path_keys=...): the default [] or
\* the two key paths [["path"], ["sec", "file"]]
ParentKey == "base"
RelativePathKeys == << <<"path">>, <<"sec", "file">> >>
KeyPathConfigs == {<<>>, RelativePathKeys}

\* ------------------------------------------------------- key path helpers
\* A value that is not a mapping contains no key (the documents drawn below
\* put only mappings, or nothing, on the prefixes of the key paths).
RECURSIVE _contains_path(_, _, _)
_contains_path(h, v, path) ==
  IF path = <<>> THEN TRUE
  ELSE IF IsDict(h, v) /\ DictHas(h[v.a], Head(path))
       THEN _contains_path(h, DictGet(h[v.a], Head(path)), Tail(path))
       ELSE FALSE

RECURSIVE _get_value_for_path(_, _, _)
_get_value_for_path(h, v, path) ==
  IF path = <<>> THEN v
  ELSE IF IsDict(h, v) /\ DictHas(h[v.a], Head(path))
       THEN _get_value_for_path(h, DictGet(h[v.a], Head(path)), Tail(path))
       ELSE Val("none", <<>>)

\* returns the heap after data[path[0]]...[path[-1]] = value (unchanged when
\* the walk or the last key fails)
RECURSIVE _set_value_for_path(_, _, _, _)
_set_value_for_path(h, v, path, value) ==
  IF ~IsDict(h, v) \/ ~DictHas(h[v.a], Head(path)) THEN h
  ELSE IF Len(path) = 1 THEN [h EXCEPT ![v.a] = DictSet(@, Head(path), value)]
  ELSE _set_value_for_path(h, DictGet(h[v.a], Head(path)), Tail(path), value)

\* --------------------------------------------------------- _merge_values
\* for key in new.keys(): current[key] = new[key]
RECURSIVE DictUpdate(_, _, _, _)
DictUpdate(h, ca, na, i) ==
  IF i > Len(h[na].keys) THEN h
  ELSE DictUpdate([h EXCEPT ![ca] = DictSet(@, h[na].keys[i], h[na].vals[i])], ca, na, i + 1)

\* a slip: new's elements put in front of current's
ListExtendFront(h, ca, na) == [h EXCEPT ![ca].vals = h[na].vals \o @]

\* current.extend(new)
ListExtend(h, ca, na) == [h EXCEPT ![ca].vals = @ \o h[na].vals]

_invalid_config(h) == [h |-> h, v |-> NoValue, err |-> "InvalidConfiguration"]

\* result: the heap after the call, the returned value, the exception raised
_merge_values(h, current, new) ==
  IF current.k \in {"str", "int", "path"}
  THEN [h |-> h, v |-> new, err |-> "none"]
  ELSE IF IsDict(h, current)
  THEN IF IsDict(h, new)
       THEN [h |-> DictUpdate(h, current.a, new.a, 1), v |-> current, err |-> "none"]
       ELSE _invalid_config(h)
  ELSE IF IsList(h, current)
  THEN IF IsList(h, new)
       THEN [h |-> ListExtend(h, current.a, new.a), v |-> current, err |-> "none"]
       ELSE _invalid_config(h)
  ELSE _invalid_config(h)

\* ------------------------------------------------------ the documents drawn
TAbsent == [k |-> "absent", s |-> <<>>, keys |-> <<>>, vals |-> <<>>]

Names == {"x", "a", "b", "s"}
FileOf(n) ==
  CASE n = "x" -> <<"/", "sub", "x.yaml">>
    [] n = "a" -> <<"/", "a.yaml">>
    [] n = "b" -> <<"/", "b.yaml">>
    [] n = "s" -> <<"/", "s.yaml">>

\* the value a document declares under the key "k"
KVal(n, kind) ==
  CASE kind = "absent" -> TAbsent
    [] kind = "str" -> TStr(<<n>>)
    [] kind = "list" -> TList(<<TStr(<<n>>), TStr(<<"e">>)>>)
    [] kind = "dict" -> TDict(<<n, "c">>, <<TStr(<<n>>), TDict(<<n>>, <<TInt("1")>>)>>)

\* the path-valued fields a document declares
PathField(n) ==
  CASE n = "x" -> TStr(<<"data.bin">>)
    [] n = "a" -> TStr(<<".", "a.bin">>)
    [] OTHER -> TAbsent
SecField(n) ==
  CASE n = "a" -> TDict(<<"file", "mode">>, <<TStr(<<"f.bin">>), TStr(<<"rw">>)>>)
    [] n = "s" -> TDict(<<"file">>, <<TStr(<<"..", "g.bin">>)>>)
    [] n = "b" -> TDict(<<"mode">>, <<TStr(<<"ro">>)>>)
    [] OTHER -> TAbsent

MkDict(es) ==
  LET present == SelectSeq(es, LAMBDA e : e.v.k # "absent")
  IN TDict([i \in 1..Len(present) |-> present[i].key], [i \in 1..Len(present) |-> present[i].v])

Doc(n, parent, kind) ==
  MkDict(<< [key |-> ParentKey, v |-> parent],
            [key |-> "k", v |-> KVal(n, kind)],
            [key |-> "path", v |-> PathField(n)],
            [key |-> "sec", v |-> SecField(n)] >>)

\* inheritance shapes: the parent reference of every document
Shape(px, pa, pb, ps, listroot) == [x |-> px, a |-> pa, b |-> pb, s |-> ps, listroot |-> listroot]
RefA == TStr(<<"..", "a.yaml">>)
RefB == TStr(<<"..", "b.yaml">>)
RefS == TStr(<<"..", "s.yaml">>)
Single == Shape(TAbsent, TAbsent, TAbsent, TAbsent, {})
Chain == Shape(RefA, TStr(<<"s.yaml">>), TAbsent, TAbsent, {})
AncestorFirst == Shape(TList(<<RefS, RefA>>), TStr(<<"s.yaml">>), TAbsent, TAbsent, {})
Diamond == Shape(TList(<<RefA, RefB>>), TStr(<<".", "s.yaml">>), TStr(<<"s.yaml">>), TAbsent, {})
Cycle == Shape(RefA, TStr(<<"s.yaml">>), TAbsent, TStr(<<"a.yaml">>), {})
EmptyAndSelf == Shape(TList(<<>>), TStr(<<"a.yaml">>), TAbsent, TAbsent, {})
Respelled == Shape(RefS, TStr(<<"sub", "..", "a.yaml">>), TAbsent, RefS, {})
Missing == Shape(RefA, TStr(<<"nofile.yaml">>), TAbsent, TAbsent, {})
BadParent == Shape(RefA, TInt("7"), TAbsent, TAbsent, {})
ListRoot == Shape(RefA, TStr(<<"s.yaml">>), TAbsent, TAbsent, {"s"})

MergeShapes == {Single, Chain, AncestorFirst, Diamond, Cycle, EmptyAndSelf}
ErrorShapes == {Respelled, Missing, BadParent, ListRoot}

Kinds == {"absent", "str", "list", "dict"}
KindAssignments == [x : Kinds, a : Kinds, b : {"list"}, s : Kinds]
PlainKinds == [x |-> "str", a |-> "list", b |-> "absent", s |-> "list"]

MkFs(sh, kk) ==
  LET doc(n) == IF n \in sh.listroot THEN TList(<<>>)
                ELSE Doc(n, sh[n], kk[n])
  IN [f \in {FileOf(n) : n \in Names} |-> doc(CHOOSE n \in Names : FileOf(n) = f)]

FileSystems ==
  {MkFs(sh, kk) : sh \in MergeShapes, kk \in KindAssignments}
    \cup {MkFs(sh, PlainKinds) : sh \in ErrorShapes}

\* the files load is called with
Roots == {FileOf("x"), FileOf("a")}

\* ------------------------------------------------------------------ state
VARIABLES
  fs,          \* the documents on disk
  relative_path_keys,  \* self._relative_path_keys
  heap,        \* the Python objects (dicts and lists) by address
  layers,      \* self._layers
  layer_data,  \* self._layer_data: layer -> address of its root dict
  data,        \* self._data: address of a dict
  pc,          \* position inside load: idle, discover, resolve, merge_init, merge
  file,        \* the argument of the running load call
  stack,       \* the frames of _recursive_load
  mergeQueue,  \* the local list `layers` of _merge_config_data still to fold
  outcome,     \* how the last load call ended: none, ok, or the exception raised
  result,      \* address returned by the last load call, 0 if none
  calls,       \* number of load calls started
  warnings,    \* identities logged by logging.warning in this call
  parsedLog,   \* identities handed to yaml.safe_load in this call
  rewriteLog,  \* <<layer, key path>> of every _set_value_for_path in this call
  foldLog,     \* layers folded into self._data in this call, seed first
  snap,        \* the layer trees as they were when path resolution ended
  fresh,       \* the first call made on the instance: file, outcome, tree, layers
  callLog,     \* file and outcome of every finished call
  mvCur, mvNew, mvOut, mvPc,  \* one direct call of _merge_values
  mvIn         \* trees of its two arguments before the call

ghost == <<warnings, parsedLog, rewriteLog, foldLog, snap>>
mv == <<mvCur, mvNew, mvOut, mvPc, mvIn>>
vars == <<fs, relative_path_keys, callLog, heap, layers, layer_data, data, pc, file, stack, mergeQueue,
          outcome, result, calls, ghost, fresh, mv>>

NoFresh == [file |-> <<>>, outcome |-> "none", tree |-> TAbsent, layers |-> <<>>]
NoMerge == [v |-> NoValue, err |-> "none"]

\* YamlLoader.__init__: heap address 1 is the empty dict of self._data
Init ==
  /\ fs \in FileSystems
  /\ relative_path_keys \in KeyPathConfigs
  /\ callLog = <<>>
  /\ heap = <<EmptyDict>>
  /\ layers = <<>>
  /\ layer_data = <<>>
  /\ data = 1
  /\ pc = "idle"
  /\ file = <<>>
  /\ stack = <<>>
  /\ mergeQueue = <<>>
  /\ outcome = "none"
  /\ result = 0
  /\ calls = 0
  /\ warnings = <<>>
  /\ parsedLog = <<>>
  /\ rewriteLog = <<>>
  /\ foldLog = <<>>
  /\ snap = <<>>
  /\ fresh = NoFresh
  /\ mvCur = NoValue /\ mvNew = NoValue /\ mvOut = NoMerge /\ mvPc = "off"
  /\ mvIn = [cur |-> TAbsent, new |-> TAbsent]

\* ------------------------------------------------------------- YamlLoader
\* a slip: the layer list survives the reset
ResetKeepsLayers(h, ls, ld) ==
  [h |-> Append(h, EmptyDict), layers |-> ls, layer_data |-> <<>>, data |-> Len(h) + 1]

\* _reset: three fresh containers; the new self._data is allocated on the heap
_reset(h, ls, ld) ==
  [h |-> Append(h, EmptyDict), layers |-> <<>>, layer_data |-> <<>>, data |-> Len(h) + 1]

Top == stack[Len(stack)]
Pop(st) == SubSeq(st, 1, Len(st) - 1)
Reverse(sq) == [i \in 1..Len(sq) |-> sq[Len(sq) + 1 - i]]
InSeq(e, sq) == \E i \in 1..Len(sq) : sq[i] = e

\* a slip: the re-visit test never fires
NeverLoaded(f, ls) == FALSE

\* line 192: file in self._layers
AlreadyLoaded(f, ls) == InSeq(f, ls)

\* a slip: the parent key is left in the seed
KeepParentKey(h, d) == h

\* lines 243-244: del self._data[parent_key] when present
DelParentKey(h, d) ==
  IF DictHas(h[d], ParentKey) THEN [h EXCEPT ![d] = DictDel(@, ParentKey)] ELSE h

\* the call ends: by return (out = "ok") or by an exception leaving load
Finish(out, res, h, ls) ==
  /\ pc' = "idle"
  /\ outcome' = out
  /\ result' = res
  /\ stack' = <<>>
  /\ mergeQueue' = <<>>
  /\ fresh' = IF calls = 1
              THEN [file |-> file, outcome |-> out,
                    tree |-> IF res = 0 THEN TAbsent ELSE Tree(h, Ref(res)),
                    layers |-> ls]
              ELSE fresh
  /\ callLog' = Append(callLog, [file |-> file, outcome |-> out])

\* load(f), lines 288-290: _reset() and the first call of _recursive_load
load(f) ==
  /\ pc = "idle" /\ mvPc = "off"
  /\ calls < MaxCalls
  /\ LET r == _reset(heap, layers, layer_data) IN
       /\ heap' = r.h
       /\ layers' = r.layers
       /\ layer_data' = r.layer_data
       /\ data' = r.data
  /\ file' = f
  /\ calls' = calls + 1
  /\ stack' = << [file |-> f, pending |-> <<>>, st |-> "enter"] >>
  /\ pc' = "discover"
  /\ outcome' = "none"
  /\ result' = 0
  /\ mergeQueue' = <<>>
  /\ warnings' = <<>> /\ parsedLog' = <<>> /\ rewriteLog' = <<>> /\ foldLog' = <<>>
  /\ snap' = <<>>
  /\ UNCHANGED <<fs, relative_path_keys, fresh, callLog, mv>>

\* _load_yaml: the parsed document as fresh objects, or the exception
_load_yaml(h, f) ==
  IF ~IsFile(fs, f) THEN [h |-> h, v |-> NoValue, err |-> "InvalidConfiguration"]
  ELSE LET r == Alloc(h, fs[Canon(fs, f)]) IN [h |-> r.h, v |-> r.v, err |-> "none"]

\* a slip: listed parents visited last to first
ParentRefsReversed(h, root) ==
  IF ~DictHas(h[root.a], ParentKey) THEN [refs |-> <<>>, err |-> "none"]
  ELSE LET pv == DictGet(h[root.a], ParentKey) IN
       IF pv.k = "str" THEN [refs |-> <<pv>>, err |-> "none"]
       ELSE IF IsList(h, pv) THEN [refs |-> Reverse(h[pv.a].vals), err |-> "none"]
       ELSE [refs |-> <<>>, err |-> "InvalidConfiguration"]

\* the parent references _recursive_load will iterate over, lines 207-224
ParentRefs(h, root) ==
  IF ~DictHas(h[root.a], ParentKey) THEN [refs |-> <<>>, err |-> "none"]
  ELSE LET pv == DictGet(h[root.a], ParentKey) IN
       IF pv.k = "str" THEN [refs |-> <<pv>>, err |-> "none"]
       ELSE IF IsList(h, pv) THEN [refs |-> h[pv.a].vals, err |-> "none"]
       ELSE [refs |-> <<>>, err |-> "InvalidConfiguration"]

\* _recursive_load(file), lines 192-208: the body up to the parent loop
_recursive_load ==
  /\ pc = "discover" /\ stack # <<>> /\ Top.st = "enter"
  /\ IF AlreadyLoaded(Top.file, layers)
     THEN /\ warnings' = Append(warnings, Top.file)
          /\ stack' = Pop(stack)
          /\ pc' = IF Pop(stack) = <<>> THEN "resolve" ELSE "discover"
          /\ UNCHANGED <<heap, layers, layer_data, parsedLog, outcome, result, mergeQueue, fresh, callLog>>
     ELSE LET ls == Append(layers, Top.file)
              ld == _load_yaml(heap, Top.file)
          IN /\ layers' = ls
             /\ UNCHANGED warnings
             /\ IF ld.err # "none"
                THEN /\ Finish(ld.err, 0, heap, ls)
                     /\ UNCHANGED <<heap, layer_data, parsedLog>>
                ELSE /\ heap' = ld.h
                     /\ parsedLog' = Append(parsedLog, Top.file)
                     /\ IF ~IsDict(ld.h, ld.v)
                        THEN /\ Finish("InvalidConfiguration", 0, ld.h, ls)
                             /\ UNCHANGED layer_data
                        ELSE /\ layer_data' = (Top.file :> ld.v.a) @@ layer_data
                             /\ LET pr == ParentRefs(ld.h, ld.v) IN
                                IF pr.err # "none"
                                THEN Finish(pr.err, 0, ld.h, ls)
                                ELSE /\ stack' = [stack EXCEPT ![Len(stack)] =
                                                    [file |-> Top.file, pending |-> pr.refs, st |-> "loop"]]
                                     /\ UNCHANGED <<pc, outcome, result, mergeQueue, fresh, callLog>>
  /\ UNCHANGED <<fs, relative_path_keys, data, file, calls, rewriteLog, foldLog, snap, mv>>

\* lines 209-219: next_file = file.parent / parent_file; self._recursive_load(next_file)
RecursiveLoadCall ==
  /\ pc = "discover" /\ stack # <<>> /\ Top.st = "loop" /\ Top.pending # <<>>
  /\ LET ref == Head(Top.pending) IN
     IF ref.k # "str"
     THEN /\ Finish("TypeError", 0, heap, layers)
     ELSE IF Len(stack) >= RecursionLimit
     THEN /\ Finish("RecursionError", 0, heap, layers)
     ELSE /\ stack' = Append([stack EXCEPT ![Len(stack)].pending = Tail(@)],
                             [file |-> Join(Parent(Top.file), PathOf(ref.s)),
                              pending |-> <<>>, st |-> "enter"])
          /\ UNCHANGED <<pc, outcome, result, mergeQueue, fresh, callLog>>
  /\ UNCHANGED <<fs, relative_path_keys, heap, layers, layer_data, data, file, calls, ghost, mv>>

\* _recursive_load returns to its caller; the outermost return continues load
RecursiveLoadReturn ==
  /\ pc = "discover" /\ stack # <<>> /\ Top.st = "loop" /\ Top.pending = <<>>
  /\ stack' = Pop(stack)
  /\ pc' = IF Pop(stack) = <<>> THEN "resolve" ELSE "discover"
  /\ UNCHANGED <<fs, relative_path_keys, heap, layers, layer_data, data, file, mergeQueue, outcome, result,
                 calls, ghost, fresh, callLog, mv>>

\* a slip: every layer resolved against the requested file's directory
ResolvedPathLeafDir(layer, ls, val) ==
  Val("path", Join(Parent(ls[1]), IF val.k = "str" THEN PathOf(val.s) ELSE val.s))

\* line 232: resolved = layer.parent / file
ResolvedPath(layer, ls, val) ==
  Val("path", Join(Parent(layer), IF val.k = "str" THEN PathOf(val.s) ELSE val.s))

\* _resolve_relative_paths, lines 228-236: the two nested loops from layer i,
\* key path j on; result: heap, log of rewrites, exception
RECURSIVE ResolveFrom(_, _, _, _, _, _)
ResolveFrom(h, ls, ld, log, i, j) ==
  IF i > Len(ls) THEN [h |-> h, log |-> log, err |-> "none"]
  ELSE IF j > Len(relative_path_keys) THEN ResolveFrom(h, ls, ld, log, i + 1, 1)
  ELSE IF ls[i] \notin DOMAIN ld THEN [h |-> h, log |-> log, err |-> "KeyError"]
  ELSE LET layer == ls[i]
           path == relative_path_keys[j]
           root == Ref(ld[layer])
       IN IF _contains_path(h, root, path)
          THEN LET val == _get_value_for_path(h, root, path) IN
               IF val.k \notin {"str", "path"}
               THEN [h |-> h, log |-> log, err |-> "TypeError"]
               ELSE LET resolved == ResolvedPath(layer, ls, val)
                    IN ResolveFrom(_set_value_for_path(h, root, path, resolved), ls, ld,
                                   Append(log, <<layer, path>>), i, j + 1)
          ELSE ResolveFrom(h, ls, ld, log, i, j + 1)

_resolve_relative_paths ==
  /\ pc = "resolve"
  /\ LET r == ResolveFrom(heap, layers, layer_data, <<>>, 1, 1) IN
       /\ heap' = r.h
       /\ rewriteLog' = r.log
       /\ IF r.err # "none"
          THEN /\ Finish(r.err, 0, r.h, layers)
               /\ UNCHANGED snap
          ELSE /\ pc' = "merge_init"
               /\ snap' = [l \in DOMAIN layer_data |-> Tree(r.h, Ref(layer_data[l]))]
               /\ UNCHANGED <<outcome, result, stack, mergeQueue, fresh, callLog>>
  /\ UNCHANGED <<fs, relative_path_keys, layers, layer_data, data, file, calls, warnings, parsedLog, foldLog, mv>>

\* _merge_config_data, lines 241-255: seed self._data with the last layer
MergeSeed ==
  /\ pc = "merge_init"
  /\ IF layers = <<>>
     THEN /\ Finish("IndexError", 0, heap, layers)
          /\ UNCHANGED <<heap, data, foldLog>>
     ELSE LET seed == layers[Len(layers)] IN
          IF seed \notin DOMAIN layer_data
          THEN /\ Finish("KeyError", 0, heap, layers)
               /\ UNCHANGED <<heap, data, foldLog>>
          ELSE LET d == layer_data[seed] IN
               /\ data' = d
               /\ heap' = DelParentKey(heap, d)
               /\ foldLog' = <<seed>>
               /\ mergeQueue' = IF Len(layers) <= 1 THEN <<>> ELSE Tail(Reverse(layers))
               /\ pc' = "merge"
               /\ UNCHANGED <<outcome, result, stack, fresh, callLog>>
  /\ UNCHANGED <<fs, relative_path_keys, layers, layer_data, file, calls, warnings, parsedLog, rewriteLog, snap, mv>>

\* lines 261-279: the inner loop over the items of one layer, from item i on;
\* da is self._data, la the layer's root dict
RECURSIVE MergeItems(_, _, _, _)
MergeItems(h, da, la, i) ==
  IF i > Len(h[la].keys) THEN [h |-> h, err |-> "none"]
  ELSE LET key == h[la].keys[i]
           value == h[la].vals[i]
       IN IF key = ParentKey THEN MergeItems(h, da, la, i + 1)
          ELSE IF ~DictHas(h[da], key)
          THEN MergeItems([h EXCEPT ![da] = DictSet(@, key, value)], da, la, i + 1)
          ELSE LET m == _merge_values(h, DictGet(h[da], key), value) IN
               IF m.err # "none" THEN [h |-> m.h, err |-> m.err]
               ELSE MergeItems([m.h EXCEPT ![da] = DictSet(@, key, m.v)], da, la, i + 1)

\* lines 259-260: one iteration of the loop over the remaining layers
MergeLayer ==
  /\ pc = "merge" /\ mergeQueue # <<>>
  /\ LET layer == Head(mergeQueue) IN
     IF layer \notin DOMAIN layer_data
     THEN /\ Finish("KeyError", 0, heap, layers)
          /\ UNCHANGED <<heap, foldLog>>
     ELSE LET r == MergeItems(heap, data, layer_data[layer], 1) IN
          /\ heap' = r.h
          /\ foldLog' = Append(foldLog, layer)
          /\ IF r.err # "none"
             THEN Finish(r.err, 0, r.h, layers)
             ELSE /\ mergeQueue' = Tail(mergeQueue)
                  /\ UNCHANGED <<pc, outcome, result, stack, fresh, callLog>>
  /\ UNCHANGED <<fs, relative_path_keys, layers, layer_data, data, file, calls, warnings, parsedLog, rewriteLog, snap, mv>>

\* load, line 300: return self._data
LoadReturn ==
  /\ pc = "merge" /\ mergeQueue = <<>>
  /\ Finish("ok", data, heap, layers)
  /\ UNCHANGED <<fs, relative_path_keys, heap, layers, layer_data, data, file, calls, ghost, mv>>

Next ==
  \/ \E f \in Roots : load(f)
  \/ _recursive_load
  \/ RecursiveLoadCall
  \/ RecursiveLoadReturn
  \/ _resolve_relative_paths
  \/ MergeSeed
  \/ MergeLayer
  \/ LoadReturn

Spec == Init /\ [][Next]_vars

\* --------------------------------------------- _merge_values called directly
MVTrees ==
  { TStr(<<"u">>), TStr(<<"v">>), TInt("1"), TPath(<<"/", "p">>), TNone,
    TDict(<<"x", "y">>, <<TInt("1"), TInt("2")>>),
    TDict(<<"y", "z">>, <<TInt("3"), TInt("4")>>),
    TDict(<<"n", "m">>, <<TDict(<<"p">>, <<TInt("1")>>), TStr(<<"u">>)>>),
    TDict(<<"n">>, <<TDict(<<"q">>, <<TInt("2")>>)>>),
    TDict(<<>>, <<>>),
    TList(<<TStr(<<"a">>), TStr(<<"b">>)>>),
    TList(<<TStr(<<"c">>), TStr(<<"d">>)>>),
    TList(<<>>),
    TList(<<TList(<<TStr(<<"a">>)>>), TInt("1")>>) }

\* the two arguments are separate objects, or one and the same object
InitMV ==
  /\ fs = MkFs(Single, PlainKinds)
  /\ relative_path_keys = <<>>
  /\ callLog = <<>>
  /\ layers = <<>> /\ layer_data = <<>> /\ data = 1
  /\ pc = "idle" /\ file = <<>> /\ stack = <<>> /\ mergeQueue = <<>>
  /\ outcome = "none" /\ result = 0 /\ calls = 0
  /\ warnings = <<>> /\ parsedLog = <<>> /\ rewriteLog = <<>> /\ foldLog = <<>>
  /\ snap = <<>> /\ fresh = NoFresh
  /\ mvOut = NoMerge /\ mvPc = "ready"
  /\ \E c \in MVTrees, n \in MVTrees :
       LET r1 == Alloc(<<EmptyDict>>, c)
           r2 == Alloc(r1.h, n)
       IN /\ heap = r2.h
          /\ mvCur = r1.v
          /\ mvNew \in {r2.v} \cup (IF c = n THEN {r1.v} ELSE {})
          /\ mvIn = [cur |-> c, new |-> IF c = n THEN c ELSE n]

MergeValuesCall ==
  /\ mvPc = "ready"
  /\ LET m == _merge_values(heap, mvCur, mvNew) IN
       /\ heap' = m.h
       /\ mvOut' = [v |-> m.v, err |-> m.err]
  /\ mvPc' = "done"
  /\ UNCHANGED <<fs, relative_path_keys, layers, layer_data, data, pc, file, stack, mergeQueue, outcome,
                 result, calls, ghost, fresh, callLog, mvCur, mvNew, mvIn>>

NextMV == MergeValuesCall

SpecMV == InitMV /\ [][NextMV]_vars

\* ------------------------------------------------ reference merge rule (trees)
TKind(t) ==
  IF t.k \in {"str", "int", "path"} THEN "scalar"
  ELSE IF t.k \in Containers THEN t.k
  ELSE "other"
TreeKinds == {"scalar", "dict", "list"}
THas(t, key) == \E i \in 1..Len(t.keys) : t.keys[i] = key
TGet(t, key) == t.vals[CHOOSE i \in 1..Len(t.keys) : t.keys[i] = key]
RefMerge(c, n) ==
  IF TKind(c) = "scalar" THEN n
  ELSE IF TKind(c) = "list" THEN TList(c.vals \o n.vals)
  ELSE LET ks == c.keys \o SelectSeq(n.keys, LAMBDA key : ~THas(c, key))
       IN TDict(ks, [i \in 1..Len(ks) |-> IF THas(n, ks[i]) THEN TGet(n, ks[i]) ELSE TGet(c, ks[i])])

\* C2: merging values of mismatched kinds (either direction), or a current value
\* outside scalar/mapping/sequence, raises InvalidConfiguration and returns nothing.
C2_MismatchRaises ==
  (mvPc = "done" /\ ( (TKind(mvIn.cur) \in TreeKinds /\ TKind(mvIn.new) \in TreeKinds
                        /\ TKind(mvIn.cur) # TKind(mvIn.new))
                      \/ TKind(mvIn.cur) = "other" ))
    => (mvOut.err = "InvalidConfiguration" /\ mvOut.v = NoValue)

\* C3: for operands of one kind _merge_values returns the reference merge:
\* scalar -> new; mapping -> current overwritten key by key, shallowly;
\* sequence -> current's elements followed by new's.
C3_SameKindMerge ==
  (mvPc = "done" /\ TKind(mvIn.cur) \in TreeKinds /\ TKind(mvIn.cur) = TKind(mvIn.new))
    => (mvOut.err = "none" /\ Tree(heap, mvOut.v) = RefMerge(mvIn.cur, mvIn.new))

C3_Witness ==
  /\ mvPc = "done" /\ mvOut.err = "none"
  /\ mvIn.cur = TDict(<<"n", "m">>, <<TDict(<<"p">>, <<TInt("1")>>), TStr(<<"u">>)>>)
  /\ mvIn.new = TDict(<<"n">>, <<TDict(<<"q">>, <<TInt("2")>>)>>)
  /\ Tree(heap, mvOut.v) = TDict(<<"n", "m">>, <<TDict(<<"q">>, <<TInt("2")>>), TStr(<<"u">>)>>)

\* ------------------------------------------- reference definitions on documents
DocOf(l) == fs[Canon(fs, l)]
SeqSet(sq) == {sq[i] : i \in 1..Len(sq)}
Count(e, sq) == Cardinality({i \in 1..Len(sq) : sq[i] = e})
Distinct(sq) == \A i, j \in 1..Len(sq) : sq[i] = sq[j] => i = j
Done == pc = "idle" /\ calls > 0
DoneOk == Done /\ outcome = "ok"
Discovered == pc \in {"resolve", "merge_init", "merge"}

TDel(t, key) ==
  LET keep == SelectSeq([i \in 1..Len(t.keys) |-> i], LAMBDA i : t.keys[i] # key)
  IN TDict([i \in 1..Len(keep) |-> t.keys[keep[i]]], [i \in 1..Len(keep) |-> t.vals[keep[i]]])

RECURSIVE TContainsPath(_, _)
TContainsPath(t, path) ==
  path = <<>> \/ (t.k = "dict" /\ THas(t, Head(path)) /\ TContainsPath(TGet(t, Head(path)), Tail(path)))
RECURSIVE TGetPath(_, _)
TGetPath(t, path) == IF path = <<>> THEN t ELSE TGetPath(TGet(t, Head(path)), Tail(path))
RECURSIVE TSetPath(_, _, _)
TSetPath(t, path, v) ==
  IF path = <<>> THEN v
  ELSE TDict(t.keys, [i \in 1..Len(t.keys) |->
                        IF t.keys[i] = Head(path) THEN TSetPath(t.vals[i], Tail(path), v)
                        ELSE t.vals[i]])

\* the document of a layer with every present key path replaced by dir / value
RECURSIVE Resolved(_, _, _)
Resolved(t, dir, paths) ==
  IF paths = <<>> THEN t
  ELSE Resolved(IF TContainsPath(t, Head(paths))
                THEN TSetPath(t, Head(paths), TPath(Join(dir, PathOf(TGetPath(t, Head(paths)).s))))
                ELSE t,
                dir, Tail(paths))

\* the parent identities a document names, in listed order
DocParents(l) ==
  LET d == DocOf(l) IN
  IF ~THas(d, ParentKey) THEN <<>>
  ELSE LET pv == TGet(d, ParentKey)
           refs == IF pv.k = "str" THEN <<pv>> ELSE pv.vals
       IN [i \in 1..Len(refs) |-> Join(Parent(l), PathOf(refs[i].s))]

\* pre-order depth-first traversal, an identity already listed is skipped
RECURSIVE PreOrder(_, _), PreOrderAll(_, _)
PreOrder(acc, l) == IF InSeq(l, acc) THEN acc ELSE PreOrderAll(Append(acc, l), DocParents(l))
PreOrderAll(acc, ps) == IF ps = <<>> THEN acc ELSE PreOrderAll(PreOrder(acc, Head(ps)), Tail(ps))

\* d inherits from b, directly or transitively (both discovered layers)
RECURSIVE InheritsIn(_, _, _)
InheritsIn(d, b, n) ==
  /\ n > 0
  /\ \E p \in SeqSet(DocParents(d)) : p = b \/ InheritsIn(p, b, n - 1)
Inherits(d, b) == InheritsIn(d, b, Len(layers))

\* ------------------------------------------------------------------ claims

\* C9: after a successful discovery the layer list is the pre-order depth-first
\* traversal from the requested file (parents in listed order), starts with the
\* requested file, has no duplicates, and its elements are the keys of the layer map.
C9_LayerList ==
  Discovered =>
    /\ layers = PreOrder(<<>>, file)
    /\ layers[1] = file
    /\ Distinct(layers)
    /\ SeqSet(layers) = DOMAIN layer_data

C9_Witness ==
  /\ pc = "resolve" /\ Len(layers) = 4 /\ warnings # <<>>
  /\ layers[3] = <<"/", "sub", "..", "s.yaml">>

\* C5: path resolution leaves every layer tree equal to its own document with
\* each present key path replaced by (directory of the layer's file) / value;
\* a layer without the key path is unchanged; every (layer, key path) that exists
\* is rewritten exactly once, and all of it before merging starts.
C5_OwnDirectory ==
  (pc \in {"merge_init", "merge"} \/ DoneOk) =>
    /\ \A l \in SeqSet(layers) : snap[l] = Resolved(DocOf(l), Parent(l), relative_path_keys)
    /\ \A l \in SeqSet(layers) : \A j \in 1..Len(relative_path_keys) :
         Count(<<l, relative_path_keys[j]>>, rewriteLog)
           = IF TContainsPath(DocOf(l), relative_path_keys[j]) THEN 1 ELSE 0
    /\ (pc = "merge_init" => foldLog = <<>>)

C5_Witness ==
  /\ pc = "merge_init" /\ Len(layers) = 3
  /\ file = <<"/", "sub", "x.yaml">>
  /\ TGet(snap[file], "path") = TPath(<<"/", "sub", "data.bin">>)
  /\ TGet(snap[layers[2]], "path") = TPath(<<"/", "sub", "..", "a.bin">>)
  /\ TGet(snap[layers[3]], "sec") = TDict(<<"file">>, <<TPath(<<"/", "sub", "..", "..", "g.bin">>)>>)

\* C8 (as claimed): a single-layer load returns the document with the parent
\* key removed and every other key and value unchanged.
C8_SingleLayerVerbatim ==
  (DoneOk /\ Len(layers) = 1) => Tree(heap, Ref(result)) = TDel(DocOf(file), ParentKey)

\* C8 (amended): a single-layer load returns the document with the parent key
\* removed, the values at the configured relative key paths replaced by their
\* resolved paths, and every other key and value unchanged.
C8_SingleLayerResolved ==
  (DoneOk /\ Len(layers) = 1) =>
    Tree(heap, Ref(result)) = Resolved(TDel(DocOf(file), ParentKey), Parent(file), relative_path_keys)

C8_Witness ==
  /\ DoneOk /\ Len(layers) = 1
  /\ THas(DocOf(file), ParentKey)
  /\ relative_path_keys # <<>>
  /\ THas(Tree(heap, Ref(result)), "k")
  /\ TGet(Tree(heap, Ref(result)), "k").k = "dict"

\* number of times discovery reaches identity l: as the requested file and
\* once for every parent reference of a discovered layer that names it
RECURSIVE SumOver(_, _, _)
SumOver(sq, l, i) == IF i > Len(sq) THEN 0 ELSE Count(l, DocParents(sq[i])) + SumOver(sq, l, i + 1)
Visits(l) == (IF l = file THEN 1 ELSE 0) + SumOver(layers, l, 1)

HasList(t, key) == THas(t, key) /\ TGet(t, key).k = "list"
ResultTree == Tree(heap, Ref(result))

C4_State ==
  /\ Discovered \/ DoneOk =>
       \A l \in SeqSet(layers) :
         /\ Count(l, layers) = 1
         /\ Count(l, parsedLog) = 1
         /\ Count(l, warnings) = Visits(l) - 1
  /\ DoneOk =>
       /\ \A l \in SeqSet(layers) : Count(l, foldLog) = 1
       /\ HasList(ResultTree, "k") =>
            \A l \in SeqSet(layers) : HasList(snap[l], "k") =>
              \A e \in SeqSet(TGet(snap[l], "k").vals) :
                Count(e, TGet(ResultTree, "k").vals)
                  = Cardinality({m \in SeqSet(layers) :
                                   HasList(snap[m], "k") /\ InSeq(e, TGet(snap[m], "k").vals)})

C4_Step ==
  Len(warnings') > Len(warnings) =>
    /\ pc' # "idle"
    /\ layers' = layers /\ layer_data' = layer_data /\ parsedLog' = parsedLog /\ heap' = heap

\* C4: an identity reached through several chains is listed, parsed and folded
\* exactly once, its sequence elements appear once in the merged sequence, and
\* every further visit only logs a warning (it neither raises nor changes state).
C4_DiamondOnce == [][C4_Step]_vars /\ []C4_State

C4_Witness ==
  /\ DoneOk /\ Len(layers) = 4 /\ Len(warnings) = 1
  /\ HasList(ResultTree, "k") /\ Len(TGet(ResultTree, "k").vals) = 8
  /\ Count(TStr(<<"s">>), TGet(ResultTree, "k").vals) = 1

\* C7: every load starts from empty discovery state, and a later load(f) on the
\* same instance ends as the load(f) made on the freshly constructed instance
\* did: same outcome, same layers, same merged tree.
C7_Reusable ==
  /\ (pc = "discover" /\ Len(stack) = 1 /\ Top.st = "enter") =>
       (layers = <<>> /\ layer_data = <<>> /\ heap[data] = EmptyDict)
  /\ (Done /\ calls >= 2 /\ file = fresh.file) =>
       /\ outcome = fresh.outcome
       /\ layers = fresh.layers
       /\ (IF result = 0 THEN TAbsent ELSE ResultTree) = fresh.tree

C7_Witness ==
  /\ Done /\ calls = 3 /\ file = fresh.file /\ outcome = "ok" /\ Len(layers) >= 2
  /\ callLog[2].file # file /\ callLog[2].outcome = "InvalidConfiguration"
  /\ ResultTree = fresh.tree

\* C1 (as claimed): when layer d inherits from layer b (and not the reverse),
\* both declare the same top-level scalar key and no other layer declares it,
\* the merged value is d's.
C1_DerivedWins ==
  DoneOk =>
    \A d, b \in SeqSet(layers) : \A key \in {"k", "path"} :
      ( /\ d # b /\ Inherits(d, b) /\ ~Inherits(b, d)
        /\ THas(snap[d], key) /\ TKind(TGet(snap[d], key)) = "scalar"
        /\ THas(snap[b], key) /\ TKind(TGet(snap[b], key)) = "scalar"
        /\ \A o \in SeqSet(layers) \ {d, b} : ~THas(snap[o], key) )
      => TGet(ResultTree, key) = TGet(snap[d], key)

\* C6 (as claimed): every load call ends by returning the merged tree or by
\* raising the configuration error.
C6_Completes == Done => outcome \in {"ok", "InvalidConfiguration"}

\* C10 (as claimed): after the merge every layer tree but the seed's has the
\* content it had when path resolution ended.
C10_OnlySeedChanged ==
  (DoneOk /\ Len(layers) >= 2) =>
    \A l \in SeqSet(layers) \ {layers[Len(layers)]} : Tree(heap, Ref(layer_data[l])) = snap[l]

====
